---- MODULE Spec2Model ----
(***************************************************************************)
(* Map-Reduce PDF summarisation, as the demo notebook runs it.             *)
(*                                                                         *)
(* The notebook's cells are executed top to bottom ("Run All"): the map    *)
(* cell loops over the pages, the join cell builds the reduce text, the    *)
(* reduce cell asks the provider for the final summary.  An exception that *)
(* leaves a cell stops the run.  The reduce cell can be executed again on  *)
(* the names the kernel still holds.                                       *)
(*                                                                         *)
(* A Python str is a sequence of one-character strings; NL is "\n".        *)
(* A name of the kernel that may be unbound is a sequence of length <= 1.  *)
(***************************************************************************)
EXTENDS Integers, Sequences, FiniteSets, TLC

\* ------------------------------------------------------------- bounds
MaxPages == 3          \* pages extracted from the PDF: 0..MaxPages
MaxReduceRuns == 2     \* executions of the reduce cell in one kernel session

\* -------------------------------------------------- program constants
START == 1
MAP_MAX_WORDS == 150
REDUCE_MAX_WORDS == 300

MAP_LLM == "gpt-3.5-turbo"
REDUCE_LLM == "gpt-4-1106-preview"
SYS_MESSAGE == "You are a generative AI expert. You explain complex AI concepts in simple language so regular users can understand your answers."

\* ------------------------------------------------------------ strings
NL == "\n"

Unbound == <<>>
Bound(v) == <<v>>
IsBound(name) == Len(name) = 1
ValueOf(name) == name[1]

\* What the provider can answer to a map call: plain summaries, the empty
\* summary, summaries that begin or end with a newline, and summaries that
\* hold a run of two or three newlines.
MapResponses ==
    {<<>>, <<"A">>, <<"B">>, <<NL>>, <<"A", NL>>, <<NL, "B">>, <<NL, NL>>,
     <<"B", NL, NL, "C">>, <<NL, NL, NL>>}

\* What it can answer to the reduce call, and the details of the errors it
\* can raise instead of answering.
ReduceResponses == {<<"F">>, <<"G">>}
MapErrorDetails == {<<"r", "a", "t", "e">>, <<"t", "i", "m", "e">>}
ReduceErrorDetails == {<<"t", "i", "m", "e">>}

\* An answer of n words, each the letter w, one blank between two words.
WordsText(n) == [k \in 1..(2 * n - 1) |-> IF k % 2 = 1 THEN "w" ELSE " "]

\* One outcome of get_chat_response: the text returned, or the error raised.
Outcomes(responses, errors) ==
    [ok : {TRUE}, val : responses] \cup [ok : {FALSE}, val : errors]

MapOutcomes == Outcomes(MapResponses, MapErrorDetails)
ReduceOutcomes == Outcomes(ReduceResponses, ReduceErrorDetails)

\* ----------------------------------------------------------- str.join
RECURSIVE JoinFrom(_, _, _)
JoinFrom(sep, items, k) ==
    IF k > Len(items) THEN <<>>
    ELSE IF k = Len(items) THEN items[k]
    ELSE items[k] \o sep \o JoinFrom(sep, items, k + 1)

\* sep.join(items)
Join(sep, items) == JoinFrom(sep, items, 1)

\* -------------------------------------------------------- str.replace
StartsWithAt(s, old, k) ==
    /\ k + Len(old) - 1 <= Len(s)
    /\ \A j \in 1..Len(old) : s[k + j - 1] = old[j]

\* Where the leftmost occurrence of old at or after position k starts, 0
\* when there is none.
NextMatch(s, old, k) ==
    LET starts == {j \in k..Len(s) : StartsWithAt(s, old, j)}
    IN IF starts = {} THEN 0
       ELSE CHOOSE j \in starts : \A i \in starts : j <= i

\* From position k on: the text up to the next occurrence is copied, the
\* occurrence gives new, and the search goes on behind it.
RECURSIVE ReplaceFrom(_, _, _, _)
ReplaceFrom(s, old, new, k) ==
    LET j == NextMatch(s, old, k)
    IN IF j = 0 THEN SubSeq(s, k, Len(s))
       ELSE SubSeq(s, k, j - 1) \o new
            \o ReplaceFrom(s, old, new, j + Len(old))

\* s.replace(old, new, 1): the leftmost occurrence only.
RECURSIVE ReplaceFirstFrom(_, _, _, _)
ReplaceFirstFrom(s, old, new, k) ==
    IF k > Len(s) THEN <<>>
    ELSE IF StartsWithAt(s, old, k)
         THEN new \o SubSeq(s, k + Len(old), Len(s))
         ELSE <<s[k]>> \o ReplaceFirstFrom(s, old, new, k + 1)

ReplaceFirst(s, old, new) == ReplaceFirstFrom(s, old, new, 1)

\* s.replace(old, new) for a non-empty old: every non-overlapping occurrence,
\* found scanning from the left.
Replace(s, old, new) == ReplaceFrom(s, old, new, 1)

\* ------------------------------------------------------- build_prompt
\* str(n) of a natural number, as str.format renders an int binding.
DigitChars == <<"0", "1", "2", "3", "4", "5", "6", "7", "8", "9">>

RECURSIVE Str(_)
Str(n) == IF n < 10 THEN <<DigitChars[n + 1]>>
          ELSE Str(n \div 10) \o <<DigitChars[(n % 10) + 1]>>

\* A template is a sequence of segments: literal text, or a {placeholder}.
Lit(chars) == [ph |-> FALSE, s |-> chars, name |-> ""]
Ph(name) == [ph |-> TRUE, s |-> <<>>, name |-> name]

\* The two templates of genaipy.prompts.generate_summaries: both are filled
\* with the bindings text and max_words.
SUMMARY_PROMPT_TPL ==
    <<Lit(<<"S">>), Ph("max_words"), Lit(<<":">>), Ph("text")>>
REDUCE_SUMMARY_PROMPT_TPL ==
    <<Lit(<<"R">>), Ph("max_words"), Lit(<<":">>), Ph("text")>>

Placeholders(template) ==
    {template[k].name : k \in {j \in 1..Len(template) : template[j].ph}}

RECURSIVE FormatFrom(_, _, _)
FormatFrom(template, bindings, k) ==
    IF k > Len(template) THEN <<>>
    ELSE (IF template[k].ph THEN bindings[template[k].name] ELSE template[k].s)
         \o FormatFrom(template, bindings, k + 1)

\* build_prompt that also refuses a binding the template never references.
build_prompt_exact(template, bindings) ==
    IF Placeholders(template) = DOMAIN bindings
    THEN [ok |-> TRUE, val |-> FormatFrom(template, bindings, 1)]
    ELSE [ok |-> FALSE, val |-> <<"K", "e", "y">>]

\* build_prompt(template, **kwargs): the template with every placeholder
\* replaced by its binding; a placeholder without a binding is an error, a
\* binding without a placeholder is ignored.  bindings maps names to strings.
build_prompt(template, bindings) ==
    IF Placeholders(template) \subseteq DOMAIN bindings
    THEN [ok |-> TRUE, val |-> FormatFrom(template, bindings, 1)]
    ELSE [ok |-> FALSE, val |-> <<"K", "e", "y">>]

\* -------------------------------------------------------------- state
VARIABLES
    pages,          \* page number -> [content], from extract_pages_text
    provider,       \* page number -> the outcome of that page's map call
    pc,             \* "map_cell", "map_loop", "join_cell", "reduce_cell",
                    \* "done", "raised"; "load_cell" when the run
                    \* starts a cell earlier; "bind", "bound" for a
                    \* build_prompt call on its own
    it,             \* pages the map loop has taken from the iterator
    map_summaries,  \* the list the map loop appends to
    summary,        \* the name summary of the kernel
    string,         \* the joined map summaries
    text,           \* the reduce input
    final_summary,  \* the name final_summary of the kernel
    output,         \* the name output of the kernel
    log,            \* records emitted through logging
    calls,          \* calls of get_chat_response, with their outcomes
    raised,         \* the exception that left a cell, "" if none
    reduce_runs,    \* executions of the reduce cell so far
    summary_tpl,    \* the template the map cell hands to build_prompt
    bind_bindings,  \* keyword arguments of a build_prompt call on its own
    bind_result,    \* what that call gave
    styled_summary, \* the name styled_summary of the content-creation kernel
    post            \* the name post of the content-creation kernel

\* What a build_prompt call on its own reads and writes.
bind_vars == <<bind_bindings, bind_result>>

\* The names only the content-creation notebook assigns.
flow_vars == <<styled_summary, post>>

vars == <<pages, provider, pc, it, map_summaries, summary, string, text,
          final_summary, output, log, calls, raised, reduce_runs,
          summary_tpl, bind_vars, flow_vars>>

PageText == <<"p">>

\* The pages of the PDF, numbered from START as extract_pages_text keys them.
PagesOf(n) == [p \in START..(START + n - 1) |-> [content |-> PageText]]

NumPages == Cardinality(DOMAIN pages)
LastPage == START + NumPages - 1

\* The kernel before the map cell runs, with the map template one of
\* templates and the provider's answer to each page one of outcomes.
InitFrom(templates, outcomes) ==
    /\ \E n \in 0..MaxPages :
         /\ pages = PagesOf(n)
         /\ provider \in [START..(START + n - 1) -> outcomes]
    /\ summary_tpl \in templates
    /\ pc = "map_cell"
    /\ it = 0
    /\ map_summaries = <<>>
    /\ summary = Unbound
    /\ string = <<>>
    /\ text = <<>>
    /\ final_summary = Unbound
    /\ output = Unbound
    /\ log = <<>>
    /\ calls = <<>>
    /\ raised = ""
    /\ reduce_runs = 0
    /\ bind_bindings = <<>>
    /\ bind_result = Unbound
    /\ styled_summary = Unbound
    /\ post = Unbound

\* The same with the provider answering the map calls as in MapOutcomes.
InitWith(templates) == InitFrom(templates, MapOutcomes)

Init == InitWith({SUMMARY_PROMPT_TPL})

\* ------------------------------------------------------------ helpers
\* One call of get_chat_response, with what it was given and how it ended.
Call(stage, p, prompt, model, res) ==
    [stage |-> stage, page |-> p, prompt |-> prompt,
     sys_message |-> SYS_MESSAGE, model |-> model,
     ok |-> res.ok, val |-> res.val]

\* One record handed to logging.info or logging.error; page is 0 for the
\* records of the reduce cell, which carry no page number.
LogRecord(level, stage, p, msg) ==
    [level |-> level, stage |-> stage, page |-> p, msg |-> msg]

\* ----------------------------------------------------------- map cell
\* map_summaries = []; the for statement takes its first page, or ends at
\* once when there is none.
MapCellStart ==
    /\ pc = "map_cell"
    /\ map_summaries' = <<>>
    /\ it' = 0
    /\ pc' = IF NumPages = 0 THEN "join_cell" ELSE "map_loop"
    /\ UNCHANGED <<summary_tpl, bind_vars, flow_vars>>
    /\ UNCHANGED <<pages, provider, summary, string, text, final_summary,
                   output, log, calls, raised, reduce_runs>>

\* The page the for statement binds in this iteration.
page == START + it

\* AfterIteration leaving the loop with its last page still to come.
AfterIterationEarly ==
    IF page >= LastPage - 1 THEN "join_cell" ELSE "map_loop"

\* Where control goes after an iteration that raised nothing.
AfterIteration == IF page = LastPage THEN "join_cell" ELSE "map_loop"

map_prompt ==
    build_prompt(summary_tpl,
                 [text |-> pages[page].content,
                  max_words |-> Str(MAP_MAX_WORDS)])

\* The number of words of s: the runs of characters other than blank and
\* newline.
IsSeparator(c) == c \in {" ", NL}
WordCount(s) ==
    Cardinality({k \in 1..Len(s) :
                   /\ ~IsSeparator(s[k])
                   /\ (k = 1 \/ IsSeparator(s[k - 1]))})

\* s cut after its n-th word.
Truncate(s, n) ==
    LET fits == {k \in 0..Len(s) : WordCount(SubSeq(s, 1, k)) <= n}
    IN SubSeq(s, 1, CHOOSE k \in fits : \A j \in fits : j <= k)

\* MapSuccess with the answer cut to MAP_MAX_WORDS words before it is
\* stored.
MapSuccessTruncates ==
    /\ pc = "map_loop"
    /\ map_prompt.ok
    /\ provider[page].ok
    /\ calls' = Append(calls, Call("map", page, map_prompt.val, MAP_LLM,
                                   provider[page]))
    /\ summary' = Bound(provider[page].val)
    /\ map_summaries' = Append(map_summaries,
                               Truncate(provider[page].val, MAP_MAX_WORDS))
    /\ log' = Append(log, LogRecord("INFO", "map", page, provider[page].val))
    /\ it' = it + 1
    /\ pc' = AfterIteration
    /\ UNCHANGED <<summary_tpl, bind_vars, flow_vars>>
    /\ UNCHANGED <<pages, provider, string, text, final_summary, output,
                   raised, reduce_runs>>

\* MapSuccess with the answer put at the front of map_summaries, as a
\* collection by arrival (latest first) would.
MapSuccessPrepends ==
    /\ pc = "map_loop"
    /\ map_prompt.ok
    /\ provider[page].ok
    /\ calls' = Append(calls, Call("map", page, map_prompt.val, MAP_LLM,
                                   provider[page]))
    /\ summary' = Bound(provider[page].val)
    /\ map_summaries' = <<provider[page].val>> \o map_summaries
    /\ log' = Append(log, LogRecord("INFO", "map", page, provider[page].val))
    /\ it' = it + 1
    /\ pc' = AfterIteration
    /\ UNCHANGED <<summary_tpl, bind_vars, flow_vars>>
    /\ UNCHANGED <<pages, provider, string, text, final_summary, output,
                   raised, reduce_runs>>

\* The try body ran to its end: the prompt was built, the provider answered,
\* the answer is appended and logged.
MapSuccess ==
    /\ pc = "map_loop"
    /\ map_prompt.ok
    /\ provider[page].ok
    /\ calls' = Append(calls, Call("map", page, map_prompt.val, MAP_LLM,
                                   provider[page]))
    /\ summary' = Bound(provider[page].val)
    /\ map_summaries' = Append(map_summaries, provider[page].val)
    /\ log' = Append(log, LogRecord("INFO", "map", page, provider[page].val))
    /\ it' = it + 1
    /\ pc' = AfterIteration
    /\ UNCHANGED <<summary_tpl, bind_vars, flow_vars>>
    /\ UNCHANGED <<pages, provider, string, text, final_summary, output,
                   raised, reduce_runs>>

\* MapHandler logging the detail of the exception it caught.
MapHandlerLogsError ==
    /\ log' = Append(log, LogRecord("ERROR", "map", page,
                                    IF map_prompt.ok THEN provider[page].val
                                    ELSE map_prompt.val))
    /\ pc' = AfterIteration
    /\ raised' = raised

\* The handler of the map loop: logging.error(..., page, summary).  It reads
\* the name summary; when no earlier iteration bound it, the read raises
\* NameError, which leaves the handler, the loop and the cell.
MapHandler ==
    IF IsBound(summary)
    THEN /\ log' = Append(log, LogRecord("ERROR", "map", page,
                                         ValueOf(summary)))
         /\ pc' = AfterIteration
         /\ raised' = raised
    ELSE /\ log' = log
         /\ pc' = "raised"
         /\ raised' = "NameError"

\* MapExcept with the failed page given a slot of its own in map_summaries.
MapExceptStores ==
    /\ pc = "map_loop"
    /\ ~(map_prompt.ok /\ provider[page].ok)
    /\ calls' = IF map_prompt.ok
                THEN Append(calls, Call("map", page, map_prompt.val, MAP_LLM,
                                        provider[page]))
                ELSE calls
    /\ MapHandler
    /\ it' = it + 1
    /\ map_summaries' = Append(map_summaries, provider[page].val)
    /\ UNCHANGED <<summary_tpl, bind_vars, flow_vars>>
    /\ UNCHANGED <<pages, provider, summary, string, text,
                   final_summary, output, reduce_runs>>

\* MapExcept with the except clause narrowed to the provider's errors: the
\* error of build_prompt leaves the loop and the cell as it is.
MapExceptPropagates ==
    /\ pc = "map_loop"
    /\ ~(map_prompt.ok /\ provider[page].ok)
    /\ calls' = IF map_prompt.ok
                THEN Append(calls, Call("map", page, map_prompt.val, MAP_LLM,
                                        provider[page]))
                ELSE calls
    /\ IF map_prompt.ok
       THEN MapHandler
       ELSE /\ log' = log
            /\ pc' = "raised"
            /\ raised' = "TemplateError"
    /\ it' = it + 1
    /\ UNCHANGED <<summary_tpl, bind_vars, flow_vars>>
    /\ UNCHANGED <<pages, provider, map_summaries, summary, string, text,
                   final_summary, output, reduce_runs>>

\* MapExcept with the failed page taken again by the next iteration.
MapExceptRetries ==
    /\ pc = "map_loop"
    /\ ~(map_prompt.ok /\ provider[page].ok)
    /\ calls' = IF map_prompt.ok
                THEN Append(calls, Call("map", page, map_prompt.val, MAP_LLM,
                                        provider[page]))
                ELSE calls
    /\ MapHandler
    /\ it' = it
    /\ UNCHANGED <<summary_tpl, bind_vars, flow_vars>>
    /\ UNCHANGED <<pages, provider, map_summaries, summary, string, text,
                   final_summary, output, reduce_runs>>

\* The try body raised: build_prompt failed, or the provider call did.
MapExcept ==
    /\ pc = "map_loop"
    /\ ~(map_prompt.ok /\ provider[page].ok)
    /\ calls' = IF map_prompt.ok
                THEN Append(calls, Call("map", page, map_prompt.val, MAP_LLM,
                                        provider[page]))
                ELSE calls
    /\ MapHandler
    /\ it' = it + 1
    /\ UNCHANGED <<summary_tpl, bind_vars, flow_vars>>
    /\ UNCHANGED <<pages, provider, map_summaries, summary, string, text,
                   final_summary, output, reduce_runs>>

\* ---------------------------------------------------------- join cell
NLNL == <<NL, NL>>

\* JoinCell without the replace: the joined text goes on as it is.
JoinCellSkipsReplace ==
    /\ pc = "join_cell"
    /\ string' = Join(<<NL>>, map_summaries)
    /\ text' = string'
    /\ pc' = "reduce_cell"
    /\ UNCHANGED <<summary_tpl, bind_vars, flow_vars>>
    /\ UNCHANGED <<pages, provider, it, map_summaries, summary,
                   final_summary, output, log, calls, raised, reduce_runs>>

\* JoinCell consuming the list it joins.
JoinCellDrains ==
    /\ pc = "join_cell"
    /\ string' = Join(<<NL>>, map_summaries)
    /\ text' = Replace(string', NLNL, <<>>)
    /\ pc' = "reduce_cell"
    /\ map_summaries' = <<>>
    /\ UNCHANGED <<summary_tpl, bind_vars, flow_vars>>
    /\ UNCHANGED <<pages, provider, it, summary,
                   final_summary, output, log, calls, raised, reduce_runs>>

\* string = "\n".join(map_summaries); text = string.replace("\n\n", "")
JoinCell ==
    /\ pc = "join_cell"
    /\ string' = Join(<<NL>>, map_summaries)
    /\ text' = Replace(string', NLNL, <<>>)
    /\ pc' = "reduce_cell"
    /\ UNCHANGED <<summary_tpl, bind_vars, flow_vars>>
    /\ UNCHANGED <<pages, provider, it, map_summaries, summary,
                   final_summary, output, log, calls, raised, reduce_runs>>

\* -------------------------------------------------------- reduce cell
reduce_prompt ==
    build_prompt(REDUCE_SUMMARY_PROMPT_TPL,
                 [text |-> text, max_words |-> Str(REDUCE_MAX_WORDS)])

\* The cell runs when "Run All" reaches it, and again each time it is
\* executed by hand afterwards.
ReduceCellRuns ==
    /\ pc \in {"reduce_cell", "done"}
    /\ reduce_runs < MaxReduceRuns

\* Bundle with the last map summary left out.
BundleDropsLast(final, summaries) ==
    [final_summary |-> final,
     map_summaries |-> SubSeq(summaries, 1, Len(summaries) - 1)]

\* The dictionary assigned to output.
Bundle(final, summaries) ==
    [final_summary |-> final, map_summaries |-> summaries]

\* ReduceSuccess with the bundle built from the prompt instead of the answer.
ReduceSuccessWrongFinal(res) ==
    /\ ReduceCellRuns
    /\ reduce_prompt.ok
    /\ res.ok
    /\ calls' = Append(calls, Call("reduce", 0, reduce_prompt.val,
                                   REDUCE_LLM, res))
    /\ final_summary' = Bound(res.val)
    /\ log' = Append(log, LogRecord("INFO", "reduce", 0, res.val))
    /\ output' = Bound(Bundle(reduce_prompt.val, map_summaries))
    /\ pc' = "done"
    /\ reduce_runs' = reduce_runs + 1
    /\ UNCHANGED <<summary_tpl, bind_vars, flow_vars>>
    /\ UNCHANGED <<pages, provider, it, map_summaries, summary, string, text,
                   raised>>

\* ReduceSuccess with the final summary also appended to map_summaries.
ReduceSuccessAppends(res) ==
    /\ ReduceCellRuns
    /\ reduce_prompt.ok
    /\ res.ok
    /\ calls' = Append(calls, Call("reduce", 0, reduce_prompt.val,
                                   REDUCE_LLM, res))
    /\ final_summary' = Bound(res.val)
    /\ log' = Append(log, LogRecord("INFO", "reduce", 0, res.val))
    /\ map_summaries' = Append(map_summaries, res.val)
    /\ output' = Bound(Bundle(res.val, map_summaries'))
    /\ pc' = "done"
    /\ reduce_runs' = reduce_runs + 1
    /\ UNCHANGED <<summary_tpl, bind_vars, flow_vars>>
    /\ UNCHANGED <<pages, provider, it, summary, string, text, raised>>

\* try body and else clause: the provider answered res.val.
ReduceSuccess(res) ==
    /\ ReduceCellRuns
    /\ reduce_prompt.ok
    /\ res.ok
    /\ calls' = Append(calls, Call("reduce", 0, reduce_prompt.val,
                                   REDUCE_LLM, res))
    /\ final_summary' = Bound(res.val)
    /\ log' = Append(log, LogRecord("INFO", "reduce", 0, res.val))
    /\ output' = Bound(Bundle(res.val, map_summaries))
    /\ pc' = "done"
    /\ reduce_runs' = reduce_runs + 1
    /\ UNCHANGED <<summary_tpl, bind_vars, flow_vars>>
    /\ UNCHANGED <<pages, provider, it, map_summaries, summary, string, text,
                   raised>>

\* ReduceExcept with the error raised again instead of logged.
ReduceExceptRaises(res) ==
    /\ ReduceCellRuns
    /\ ~(reduce_prompt.ok /\ res.ok)
    /\ calls' = IF reduce_prompt.ok
                THEN Append(calls, Call("reduce", 0, reduce_prompt.val,
                                        REDUCE_LLM, res))
                ELSE calls
    /\ pc' = "raised"
    /\ raised' = "ReduceFailure"
    /\ reduce_runs' = reduce_runs + 1
    /\ UNCHANGED <<summary_tpl, bind_vars, flow_vars>>
    /\ UNCHANGED <<pages, provider, it, map_summaries, summary, string, text,
                   final_summary, output, log>>

\* ReduceExcept with the provider asked a second time after its failure.
ReduceExceptCallsAgain(res) ==
    /\ ReduceCellRuns
    /\ ~(reduce_prompt.ok /\ res.ok)
    /\ calls' = IF reduce_prompt.ok
                THEN calls \o <<Call("reduce", 0, reduce_prompt.val,
                                     REDUCE_LLM, res),
                                Call("reduce", 0, reduce_prompt.val,
                                     REDUCE_LLM, res)>>
                ELSE calls
    /\ log' = Append(log, LogRecord("ERROR", "reduce", 0,
                                    IF reduce_prompt.ok THEN res.val
                                    ELSE reduce_prompt.val))
    /\ pc' = "done"
    /\ reduce_runs' = reduce_runs + 1
    /\ UNCHANGED <<summary_tpl, bind_vars, flow_vars>>
    /\ UNCHANGED <<pages, provider, it, map_summaries, summary, string, text,
                   final_summary, output, raised>>

\* ReduceExcept with a bundle assigned on failure too: the error detail in
\* the place of the final summary.
ReduceExceptAssigns(res) ==
    /\ ReduceCellRuns
    /\ ~(reduce_prompt.ok /\ res.ok)
    /\ calls' = IF reduce_prompt.ok
                THEN Append(calls, Call("reduce", 0, reduce_prompt.val,
                                        REDUCE_LLM, res))
                ELSE calls
    /\ log' = Append(log, LogRecord("ERROR", "reduce", 0,
                                    IF reduce_prompt.ok THEN res.val
                                    ELSE reduce_prompt.val))
    /\ output' = Bound(Bundle(res.val, map_summaries))
    /\ pc' = "done"
    /\ reduce_runs' = reduce_runs + 1
    /\ UNCHANGED <<summary_tpl, bind_vars, flow_vars>>
    /\ UNCHANGED <<pages, provider, it, map_summaries, summary, string, text,
                   final_summary, raised>>

\* except clause: the error is logged with its detail and the cell ends.
ReduceExcept(res) ==
    /\ ReduceCellRuns
    /\ ~(reduce_prompt.ok /\ res.ok)
    /\ calls' = IF reduce_prompt.ok
                THEN Append(calls, Call("reduce", 0, reduce_prompt.val,
                                        REDUCE_LLM, res))
                ELSE calls
    /\ log' = Append(log, LogRecord("ERROR", "reduce", 0,
                                    IF reduce_prompt.ok THEN res.val
                                    ELSE reduce_prompt.val))
    /\ pc' = "done"
    /\ reduce_runs' = reduce_runs + 1
    /\ UNCHANGED <<summary_tpl, bind_vars, flow_vars>>
    /\ UNCHANGED <<pages, provider, it, map_summaries, summary, string, text,
                   final_summary, output, raised>>

Next ==
    \/ MapCellStart
    \/ MapSuccess
    \/ MapExcept
    \/ JoinCell
    \/ \E res \in ReduceOutcomes : ReduceSuccess(res)
    \/ \E res \in ReduceOutcomes : ReduceExcept(res)

Spec == Init /\ [][Next]_vars

\* The notebook run with SUMMARY_PROMPT_TPL as the library has it, or
\* misconfigured: a template that names a placeholder the map cell does not
\* bind.
MISCONFIGURED_PROMPT_TPL ==
    <<Lit(<<"S">>), Ph("language"), Lit(<<":">>), Ph("text")>>

TplInit == InitWith({SUMMARY_PROMPT_TPL, MISCONFIGURED_PROMPT_TPL})

TplSpec == TplInit /\ [][Next]_vars

\* ------------------------------------- answers longer than max_words
\* The notebook run with a provider that does not keep to max_words: a map
\* answer is one word past MAP_MAX_WORDS or a short one, the reduce answer
\* is one word past REDUCE_MAX_WORDS or a short one.
LongMapOutcomes ==
    Outcomes({WordsText(MAP_MAX_WORDS + 1), <<"A">>}, {<<"t", "i", "m", "e">>})
LongReduceOutcomes ==
    Outcomes({WordsText(REDUCE_MAX_WORDS + 1), <<"F">>}, ReduceErrorDetails)

LongInit == InitFrom({SUMMARY_PROMPT_TPL}, LongMapOutcomes)

LongNext ==
    \/ MapCellStart
    \/ MapSuccess
    \/ MapExcept
    \/ JoinCell
    \/ \E res \in LongReduceOutcomes : ReduceSuccess(res)
    \/ \E res \in LongReduceOutcomes : ReduceExcept(res)

LongSpec == LongInit /\ [][LongNext]_vars

\* ------------------------------------- the content-creation notebook
\* max_words of the summary step and of the post step.
FLOW_MAX_WORDS == 150

\* The templates of the style step and of the post step, filled with the
\* bindings text and tpl, and text and max_words.
STYLE_TEXT_TPL ==
    <<Lit(<<"Y">>), Ph("tpl"), Lit(<<":">>), Ph("text")>>
GENERATE_POST_TPL ==
    <<Lit(<<"P">>), Ph("max_words"), Lit(<<":">>), Ph("text")>>

\* BASIC_SUMMARY_OUTLINE.strip()
tpl == <<"o">>

\* What extract_tags_contents gave for the webpage, and what the provider
\* can answer or raise in a step.
WebTexts == {<<"p">>, <<"q">>}
FlowOutcomes ==
    Outcomes({<<"A">>, <<"B">>, <<>>}, {<<"r", "a", "t", "e">>,
                                        <<"t", "i", "m", "e">>})

\* One call of get_chat_response in the content-creation notebook: the
\* step, the text argument of its build_prompt, the prompt, the outcome.
FlowCall(stage, input, prompt, res) ==
    [stage |-> stage, input |-> input, prompt |-> prompt,
     ok |-> res.ok, val |-> res.val]

\* The kernel after the extraction, outline and system-message cells.
FlowInit ==
    /\ text \in WebTexts
    /\ pc = "summary_cell"
    /\ summary = Unbound
    /\ styled_summary = Unbound
    /\ post = Unbound
    /\ calls = <<>>
    /\ raised = ""
    /\ pages = PagesOf(0)
    /\ provider = <<>>
    /\ summary_tpl = SUMMARY_PROMPT_TPL
    /\ it = 0
    /\ map_summaries = <<>>
    /\ string = <<>>
    /\ final_summary = Unbound
    /\ output = Unbound
    /\ log = <<>>
    /\ reduce_runs = 0
    /\ bind_bindings = <<>>
    /\ bind_result = Unbound

\* How a step's cell ends: on to the next cell, or out by the exception of
\* the provider call, which nothing in the cell catches.
FlowEnds(res, next) ==
    /\ pc' = IF res.ok THEN next ELSE "raised"
    /\ raised' = IF res.ok THEN raised ELSE "ProviderError"

\* Step 1: summary of the webpage text.
SummaryStep(res) ==
    /\ pc = "summary_cell"
    /\ LET prompt == build_prompt(SUMMARY_PROMPT_TPL,
                                  [text |-> text,
                                   max_words |-> Str(FLOW_MAX_WORDS)]).val
       IN calls' = Append(calls, FlowCall("summary", text, prompt, res))
    /\ summary' = IF res.ok THEN Bound(res.val) ELSE summary
    /\ FlowEnds(res, "style_cell")
    /\ UNCHANGED <<styled_summary, post, text>>
    /\ UNCHANGED <<summary_tpl, bind_vars, pages, provider, it, map_summaries,
                   string, final_summary, output, log, reduce_runs>>

\* StyleStep structuring the webpage text instead of its summary.
StyleStepFromText(res) ==
    /\ pc = "style_cell"
    /\ LET style_prompt == build_prompt(STYLE_TEXT_TPL,
                                        [text |-> text, tpl |-> tpl]).val
       IN calls' = Append(calls, FlowCall("style", text, style_prompt, res))
    /\ styled_summary' = IF res.ok THEN Bound(res.val) ELSE styled_summary
    /\ FlowEnds(res, "post_cell")
    /\ UNCHANGED <<summary, post, text>>
    /\ UNCHANGED <<summary_tpl, bind_vars, pages, provider, it, map_summaries,
                   string, final_summary, output, log, reduce_runs>>

\* Step 2: the summary structured after the outline.
StyleStep(res) ==
    /\ pc = "style_cell"
    /\ LET style_prompt == build_prompt(STYLE_TEXT_TPL,
                                        [text |-> ValueOf(summary),
                                         tpl |-> tpl]).val
       IN calls' = Append(calls, FlowCall("style", ValueOf(summary),
                                          style_prompt, res))
    /\ styled_summary' = IF res.ok THEN Bound(res.val) ELSE styled_summary
    /\ FlowEnds(res, "post_cell")
    /\ UNCHANGED <<summary, post, text>>
    /\ UNCHANGED <<summary_tpl, bind_vars, pages, provider, it, map_summaries,
                   string, final_summary, output, log, reduce_runs>>

\* Step 3: the post written from the structured summary.
PostStep(res) ==
    /\ pc = "post_cell"
    /\ LET generate_prompt ==
             build_prompt(GENERATE_POST_TPL,
                          [text |-> ValueOf(styled_summary),
                           max_words |-> Str(FLOW_MAX_WORDS)]).val
       IN calls' = Append(calls, FlowCall("post", ValueOf(styled_summary),
                                          generate_prompt, res))
    /\ post' = IF res.ok THEN Bound(res.val) ELSE post
    /\ FlowEnds(res, "done")
    /\ UNCHANGED <<summary, styled_summary, text>>
    /\ UNCHANGED <<summary_tpl, bind_vars, pages, provider, it, map_summaries,
                   string, final_summary, output, log, reduce_runs>>

FlowNext ==
    \/ \E res \in FlowOutcomes : SummaryStep(res)
    \/ \E res \in FlowOutcomes : StyleStep(res)
    \/ \E res \in FlowOutcomes : PostStep(res)

FlowSpec == FlowInit /\ [][FlowNext]_vars

\* ------------------------------------------------ a user interrupt
\* What a map call gives when the interrupt arrives while it is in flight:
\* no return value, KeyboardInterrupt is raised in the caller.
Interrupted == [ok |-> FALSE, val |-> <<"i", "n", "t">>]

\* Where in an iteration of the map loop the interrupt arrives: before the
\* provider call is made, while it is in flight, after it returned and
\* before the append, after the append and before the logging call.
InterruptPoints == {"before_call", "in_call", "after_call", "after_append"}

\* Interrupt with KeyboardInterrupt caught by the loop's handler like a
\* failed call: the loop goes on.
InterruptCaught ==
    /\ pc = "map_loop"
    /\ map_prompt.ok
    /\ \E point \in InterruptPoints :
         /\ point \in {"after_call", "after_append"} => provider[page].ok
         /\ calls' = IF point = "before_call" THEN calls
                     ELSE Append(calls,
                                 Call("map", page, map_prompt.val, MAP_LLM,
                                      IF point = "in_call" THEN Interrupted
                                      ELSE provider[page]))
         /\ summary' = IF point \in {"after_call", "after_append"}
                       THEN Bound(provider[page].val) ELSE summary
         /\ map_summaries' = IF point = "after_append"
                             THEN Append(map_summaries, provider[page].val)
                             ELSE map_summaries
    /\ raised' = "KeyboardInterrupt"
    /\ pc' = AfterIteration
    /\ it' = it + 1
    /\ UNCHANGED <<summary_tpl, bind_vars, flow_vars>>
    /\ UNCHANGED <<pages, provider, string, text, final_summary, output, log,
                   reduce_runs>>

\* The user interrupts the kernel while the map loop runs.  KeyboardInterrupt
\* is not an Exception, so the except clause of the loop does not catch it:
\* it leaves the iteration, the loop and the cell, and the run stops.
Interrupt ==
    /\ pc = "map_loop"
    /\ map_prompt.ok
    /\ \E point \in InterruptPoints :
         /\ point \in {"after_call", "after_append"} => provider[page].ok
         /\ calls' = IF point = "before_call" THEN calls
                     ELSE Append(calls,
                                 Call("map", page, map_prompt.val, MAP_LLM,
                                      IF point = "in_call" THEN Interrupted
                                      ELSE provider[page]))
         /\ summary' = IF point \in {"after_call", "after_append"}
                       THEN Bound(provider[page].val) ELSE summary
         /\ map_summaries' = IF point = "after_append"
                             THEN Append(map_summaries, provider[page].val)
                             ELSE map_summaries
    /\ raised' = "KeyboardInterrupt"
    /\ pc' = "raised"
    /\ UNCHANGED <<summary_tpl, bind_vars, flow_vars>>
    /\ UNCHANGED <<pages, provider, it, string, text, final_summary, output,
                   log, reduce_runs>>

\* The provider's answers in the runs with an interrupt: two plain
\* summaries or an error.
IntMapOutcomes == Outcomes({<<"A">>, <<"B">>}, {<<"t", "i", "m", "e">>})

IntInit == InitFrom({SUMMARY_PROMPT_TPL}, IntMapOutcomes)

IntNext ==
    \/ Interrupt
    \/ Next

IntSpec == IntInit /\ [][IntNext]_vars

\* ------------------------------------------------- the load cell too
\* The kernel before the load cell runs: pages is not assigned yet (no
\* pages); the PDF has as many pages as the provider plan has entries.
LoadInit ==
    /\ \E n \in 0..MaxPages :
         provider \in [START..(START + n - 1) -> MapOutcomes]
    /\ pages = PagesOf(0)
    /\ summary_tpl = SUMMARY_PROMPT_TPL
    /\ pc = "load_cell"
    /\ it = 0
    /\ map_summaries = <<>>
    /\ summary = Unbound
    /\ string = <<>>
    /\ text = <<>>
    /\ final_summary = Unbound
    /\ output = Unbound
    /\ log = <<>>
    /\ calls = <<>>
    /\ raised = ""
    /\ reduce_runs = 0
    /\ bind_bindings = <<>>
    /\ bind_result = Unbound
    /\ styled_summary = Unbound
    /\ post = Unbound

\* LoadCell with a failed extraction passed over: the run goes on to the
\* map cell with no pages.
LoadCellGoesOn ==
    /\ pc = "load_cell"
    /\ \E extracted \in BOOLEAN :
         IF extracted
         THEN /\ pages' = PagesOf(Cardinality(DOMAIN provider))
              /\ raised' = raised
         ELSE /\ pages' = PagesOf(0)
              /\ raised' = "SourceError"
    /\ pc' = "map_cell"
    /\ UNCHANGED <<summary_tpl, bind_vars, flow_vars>>
    /\ UNCHANGED <<provider, it, map_summaries, summary, string, text,
                   final_summary, output, log, calls, reduce_runs>>

\* pages = extract_pages_text(...): the call returns the pages, or raises;
\* nothing in the cell catches, so the exception leaves the cell and the
\* run stops there.
LoadCell ==
    /\ pc = "load_cell"
    /\ \E extracted \in BOOLEAN :
         IF extracted
         THEN /\ pages' = PagesOf(Cardinality(DOMAIN provider))
              /\ pc' = "map_cell"
              /\ raised' = raised
         ELSE /\ pages' = pages
              /\ pc' = "raised"
              /\ raised' = "SourceError"
    /\ UNCHANGED <<summary_tpl, bind_vars, flow_vars>>
    /\ UNCHANGED <<provider, it, map_summaries, summary, string, text,
                   final_summary, output, log, calls, reduce_runs>>

LoadNext ==
    \/ LoadCell
    \/ Next

LoadSpec == LoadInit /\ [][LoadNext]_vars

\* ---------------------------------------------- build_prompt on its own
\* A call build_prompt(template, **bindings) outside the cells, over
\* templates of at most MaxTemplateLen segments and bindings for any of the
\* names name and extra.
MaxTemplateLen == 2

BindSegments == {Lit(<<"H">>), Ph("name"), Ph("extra")}
BindTemplates == UNION {[1..n -> BindSegments] : n \in 0..MaxTemplateLen}
BindValues == {<<"A">>, <<"i", "g">>}
BindBindings == UNION {[D -> BindValues] : D \in SUBSET {"name", "extra"}}

BindInit ==
    /\ summary_tpl \in BindTemplates
    /\ bind_bindings \in BindBindings
    /\ bind_result = Unbound
    /\ styled_summary = Unbound
    /\ post = Unbound
    /\ pc = "bind"
    /\ pages = PagesOf(0)
    /\ provider = <<>>
    /\ it = 0
    /\ map_summaries = <<>>
    /\ summary = Unbound
    /\ string = <<>>
    /\ text = <<>>
    /\ final_summary = Unbound
    /\ output = Unbound
    /\ log = <<>>
    /\ calls = <<>>
    /\ raised = ""
    /\ reduce_runs = 0

Bind ==
    /\ pc = "bind"
    /\ bind_result' = Bound(build_prompt(summary_tpl, bind_bindings))
    /\ pc' = "bound"
    /\ UNCHANGED <<summary_tpl, bind_bindings, flow_vars>>
    /\ UNCHANGED <<pages, provider, it, map_summaries, summary, string, text,
                   final_summary, output, log, calls, raised, reduce_runs>>

BindSpec == BindInit /\ [][Bind]_vars

TypeOK ==
    /\ pc \in {"map_cell", "map_loop", "join_cell", "reduce_cell", "done",
               "raised"}
    /\ it \in 0..NumPages
    /\ Len(map_summaries) <= it
    /\ reduce_runs \in 0..MaxReduceRuns

\* ===================================================================
\* Properties
\* ===================================================================
\* The map cell is over: its loop ran to the end, or an exception left it.
MapEnded == pc \in {"join_cell", "reduce_cell", "done", "raised"}

IsMapCall(c) == c.stage = "map"
IsReduceCall(c) == c.stage = "reduce"
MapCalls == SelectSeq(calls, IsMapCall)
ReduceCalls == SelectSeq(calls, IsReduceCall)

IsOk(c) == c.ok
OkMapCalls == SelectSeq(MapCalls, IsOk)

\* The pages on which the provider raises / answers when it is called.
FailingPages == {p \in DOMAIN provider : ~provider[p].ok}
AnsweringPages == {p \in DOMAIN provider : provider[p].ok}

IsMapError(r) == r.level = "ERROR" /\ r.stage = "map"
MapErrorRecords == SelectSeq(log, IsMapError)

\* The summaries the provider gives for the answering pages among
\* START..p, in page order.
RECURSIVE AnswersUpTo(_)
AnswersUpTo(p) ==
    IF p < START THEN <<>>
    ELSE AnswersUpTo(p - 1)
         \o (IF provider[p].ok THEN <<provider[p].val>> ELSE <<>>)

\* -------------------------------------------------------------------
\* C1  Isolation in the map stage: when the provider fails on exactly one
\* page k, whichever page that is, the map stage ends normally having asked
\* the provider for every page, with N results: N-1 stored summaries and
\* one failure, reported for page k.
C1_Isolation ==
    (MapEnded /\ Cardinality(FailingPages) = 1) =>
        /\ raised = ""
        /\ Len(MapCalls) = NumPages
        /\ Len(map_summaries) = NumPages - 1
        /\ Len(MapErrorRecords) = 1
        /\ MapErrorRecords[1].page \in FailingPages

\* -------------------------------------------------------------------
\* C2 (as claimed)  After the map stage the result list has exactly N
\* entries, the i-th being the result of the i-th page.
C2_OnePerChunk ==
    MapEnded =>
        /\ Len(map_summaries) = NumPages
        /\ \A i \in 1..NumPages :
             map_summaries[i] = provider[START + i - 1].val

\* C2 (amended)  After the map stage the result list has exactly one entry
\* per page whose provider call succeeded, none for a page whose call
\* failed; the j-th entry is the answer to the j-th successful call, and the
\* successful calls are in ascending page order.
C2_OnePerSuccess ==
    MapEnded =>
        /\ Len(map_summaries) = Len(OkMapCalls)
        /\ Len(map_summaries) <= NumPages
        /\ \A j \in 1..Len(OkMapCalls) :
             map_summaries[j] = OkMapCalls[j].val
        /\ \A j \in 1..(Len(OkMapCalls) - 1) :
             OkMapCalls[j].page < OkMapCalls[j + 1].page

\* A run of three pages whose middle call failed: two entries, in order.
C2_Witness ==
    /\ MapEnded
    /\ NumPages = 3
    /\ Len(MapCalls) = 3
    /\ ~MapCalls[2].ok
    /\ Len(map_summaries) = 2
    /\ map_summaries[1] # map_summaries[2]

\* -------------------------------------------------------------------
\* C3  Failure recording: every page whose provider call failed is recorded
\* with its page number and the detail of the error, and a bundle carries a
\* failed_chunks list holding exactly those pages in page order.
C3_FailuresRecorded ==
    /\ \A i \in 1..Len(MapCalls) :
         ~MapCalls[i].ok =>
            \E j \in 1..Len(MapErrorRecords) :
               /\ MapErrorRecords[j].page = MapCalls[i].page
               /\ MapErrorRecords[j].msg = MapCalls[i].val
    /\ IsBound(output) =>
         /\ "failed_chunks" \in DOMAIN ValueOf(output)
         /\ Len(ValueOf(output).failed_chunks) = Cardinality(FailingPages)

\* -------------------------------------------------------------------
\* C4  Non-empty reduce guarantee: with zero successful map summaries the
\* reduce stage fails with EmptyInputError and the provider is never called
\* for the reduce step.
C4_NoReduceOnEmpty ==
    (map_summaries = <<>>) =>
        /\ Len(ReduceCalls) = 0
        /\ pc = "done" => raised = "EmptyInputError"

\* -------------------------------------------------------------------
\* The map summaries joined by one newline, each doubled newline collapsed
\* to a single one.
CollapsedJoin == Replace(Join(<<NL>>, map_summaries), NLNL, <<NL>>)

\* C5  Join correctness: the text bound into every reduce prompt is the map
\* summaries joined by one newline with every doubled newline collapsed to
\* a single newline (["A", "B\n\nC"] gives "A\nB\nC").
C5_JoinCollapses ==
    /\ pc \in {"reduce_cell", "done"} => text = CollapsedJoin
    /\ \A i \in 1..Len(ReduceCalls) :
         ReduceCalls[i].prompt =
            build_prompt(REDUCE_SUMMARY_PROMPT_TPL,
                         [text |-> CollapsedJoin,
                          max_words |-> Str(REDUCE_MAX_WORDS)]).val

\* -------------------------------------------------------------------
LastCall == calls[Len(calls)]
ReduceJustFailed ==
    Len(calls) > 0 /\ IsReduceCall(LastCall) /\ ~LastCall.ok
ReduceJustSucceeded ==
    Len(calls) > 0 /\ IsReduceCall(LastCall) /\ LastCall.ok

\* C6 (as claimed)  Reduce failure is fatal: when the reduce provider call
\* fails the run fails with ReduceFailure, surfaced to the caller.
C6_ReduceFailureFatal ==
    ReduceJustFailed => raised = "ReduceFailure"

\* C6 (amended)  When the reduce provider call fails, the error is caught
\* inside the reduce cell: its detail is logged as an error record, no
\* exception reaches the caller, the cell ends normally, and that execution
\* assigns neither final_summary nor output.
C6_ReduceFailureLogged ==
    ReduceJustFailed =>
        /\ raised = ""
        /\ pc = "done"
        /\ Len(log) > 0
        /\ log[Len(log)] = LogRecord("ERROR", "reduce", 0, LastCall.val)
        /\ (\A i \in 1..Len(ReduceCalls) : ~ReduceCalls[i].ok) =>
              (output = Unbound /\ final_summary = Unbound)

\* A failed reduce call over at least one map summary.
C6_Witness ==
    ReduceJustFailed /\ Len(map_summaries) > 0

\* -------------------------------------------------------------------
\* C7  Partial-failure tolerance end to end: whenever the provider answers
\* for at least one page, whichever pages it fails on, the run gets past
\* the map stage; and once the reduce call has succeeded there is a bundle
\* whose reduce input was built from exactly the surviving summaries.
C7_PartialFailureTolerated ==
    /\ AnsweringPages # {} => pc # "raised"
    /\ ReduceJustSucceeded =>
         /\ IsBound(output)
         /\ text = Replace(Join(<<NL>>, AnswersUpTo(LastPage)), NLNL, <<>>)

C9_BundleSummaries ==
    IsBound(output) =>
        /\ ValueOf(output).map_summaries = AnswersUpTo(START + it - 1)
        /\ Len(ValueOf(output).map_summaries)
             = Cardinality(AnsweringPages)

\* A bundle of a run in which a page failed and two pages succeeded.
C9_Witness ==
    /\ IsBound(output)
    /\ FailingPages # {}
    /\ Len(ValueOf(output).map_summaries) = 2

\* -------------------------------------------------------------------
MapCallsIn(cs) == SelectSeq(cs, IsMapCall)

\* A step that leaves the map results as they are and issues no map call.
MapResultsKept ==
    /\ map_summaries' = map_summaries
    /\ summary' = summary
    /\ MapCallsIn(calls') = MapCallsIn(calls)

\* C10  Map results survive a reduce: no step of the join cell or of the
\* reduce cell, successful or failed, changes map_summaries or the loop's
\* summary, and none issues a map call; so the reduce cell can run again on
\* the same map results after it failed.
C10_MapResultsSurviveReduce ==
    [][MapEnded => MapResultsKept]_vars

\* The reduce cell failed, ran again and produced a bundle holding the map
\* summaries of before.
C10_Witness ==
    /\ Len(ReduceCalls) = 2
    /\ ~ReduceCalls[1].ok
    /\ ReduceCalls[2].ok
    /\ Len(map_summaries) > 0
    /\ IsBound(output)
    /\ ValueOf(output).map_summaries = map_summaries

\* -------------------------------------------------------------------
\* A step that executes the reduce cell once more, after an earlier
\* execution of it called the provider.
ReduceReplayed ==
    /\ Len(ReduceCalls) > 0
    /\ reduce_runs' = reduce_runs + 1
    /\ Len(calls') = Len(calls) + 1

\* What a replay does when the provider is deterministic: it is given the
\* prompt it was given before, and when it answers what the bundle in place
\* holds as final_summary, the new bundle equals the one in place.
ReplayRepeats ==
    LET new == calls'[Len(calls')]
        old == ReduceCalls[Len(ReduceCalls)]
    IN /\ new.prompt = old.prompt
       /\ new.model = old.model
       /\ (new.ok /\ IsBound(output)
             /\ new.val = ValueOf(output).final_summary) =>
            output' = output

\* C11  Idempotence of replay: running the reduce step again on the same
\* map results with the same deterministic provider (same answer to the same
\* prompt) yields a bundle identical to the first: same final_summary, same
\* map_summaries.
C11_ReplayIdempotent ==
    [][ReduceReplayed => ReplayRepeats]_vars

\* Two executions of the reduce cell over two map summaries, both answered
\* alike.
C11_Witness ==
    /\ Len(ReduceCalls) = 2
    /\ ReduceCalls[1].ok
    /\ ReduceCalls[2].ok
    /\ ReduceCalls[1].val = ReduceCalls[2].val
    /\ Len(map_summaries) = 2
    /\ IsBound(output)

\* -------------------------------------------------------------------
\* C12  Order preservation: the loop calls the provider for one page at a
\* time and waits for it, so the calls complete in the order they are
\* issued, which is page order; in every run and at every moment the map
\* results are the answers in input page order.
C12_OrderPreserved ==
    /\ \A i \in 1..Len(MapCalls) : MapCalls[i].page = START + i - 1
    /\ map_summaries = AnswersUpTo(START + Len(MapCalls) - 1)
    /\ pc = "map_loop" => page = START + Len(MapCalls)

\* Three pages answered with three different summaries.
C12_Witness ==
    /\ MapEnded
    /\ Len(map_summaries) = 3
    /\ map_summaries[1] # map_summaries[2]
    /\ map_summaries[2] # map_summaries[3]
    /\ map_summaries[1] # map_summaries[3]

\* -------------------------------------------------------------------
\* The map template names a placeholder the map cell gives no binding for,
\* and the loop has gone through its first page.
TemplateFailed ==
    /\ ~(Placeholders(summary_tpl) \subseteq {"text", "max_words"})
    /\ it >= 1

\* C13 (as claimed)  A TemplateError raised while building a page's prompt
\* is not caught as a page failure: it leaves the map stage and reaches the
\* caller of the run.
C13_TemplateErrorPropagates ==
    TemplateFailed => raised = "TemplateError"

\* C13 (amended)  The map loop's except clause catches every Exception, the
\* error of build_prompt included: a TemplateError never reaches the caller.
\* The page gets no provider call and no stored summary, and the handler
\* runs as for a provider failure; with no summary bound yet it raises
\* NameError, and that is what leaves the stage, at the first page.
C13_TemplateErrorCaught ==
    TemplateFailed =>
        /\ raised # "TemplateError"
        /\ MapCalls = <<>>
        /\ map_summaries = <<>>
        /\ ~IsBound(summary)
        /\ raised = "NameError"
        /\ pc = "raised"
        /\ it = 1
        /\ log = <<>>

\* A run over two pages or more with the misconfigured template.
C13_Witness ==
    /\ TemplateFailed
    /\ NumPages >= 2
    /\ pc = "raised"

\* -------------------------------------------------------------------
\* The bindings restricted to the names the template references.
ReferencedBindings ==
    [k \in Placeholders(summary_tpl) \cap DOMAIN bind_bindings |->
       bind_bindings[k]]

\* The length of the text a successful binding gives: literal segments as
\* they are, each placeholder the length of its binding.
RECURSIVE BoundLenFrom(_)
BoundLenFrom(k) ==
    IF k > Len(summary_tpl) THEN 0
    ELSE (IF summary_tpl[k].ph
          THEN Len(bind_bindings[summary_tpl[k].name])
          ELSE Len(summary_tpl[k].s))
         + BoundLenFrom(k + 1)

\* "Hello {name}" of the example, one character for the greeting.
HelloName == <<Lit(<<"H">>), Ph("name")>>

\* C14  Template strictness: binding a template fails with TemplateError
\* exactly when a placeholder the template references has no binding; a
\* binding the template never references does not make it fail and does not
\* change the result.  "Hello {name}" with no binding fails, and with
\* name = Ada and an extra binding gives "Hello Ada".
C14_TemplateStrictness ==
    IsBound(bind_result) =>
        LET r == ValueOf(bind_result)
        IN /\ r.ok <=>
                (Placeholders(summary_tpl) \subseteq DOMAIN bind_bindings)
           /\ r = build_prompt(summary_tpl, ReferencedBindings)
           /\ r.ok => Len(r.val) = BoundLenFrom(1)
           /\ (summary_tpl = HelloName /\ bind_bindings = <<>>) => ~r.ok
           /\ (/\ summary_tpl = HelloName
               /\ DOMAIN bind_bindings = {"name", "extra"})
                => r = [ok |-> TRUE, val |-> <<"H">> \o bind_bindings["name"]]

\* "Hello {name}" bound with name and an extra key.
C14_Witness ==
    /\ IsBound(bind_result)
    /\ summary_tpl = HelloName
    /\ DOMAIN bind_bindings = {"name", "extra"}
    /\ bind_bindings["name"] # bind_bindings["extra"]
    /\ ValueOf(bind_result).ok

\* -------------------------------------------------------------------
\* Before the i-th call every page had a map call that returned or raised.
AllPagesSettledBefore(i) ==
    \A p \in DOMAIN pages :
        \E j \in 1..(i - 1) : IsMapCall(calls[j]) /\ calls[j].page = p

\* C15  Reduce is the barrier: a reduce call is made only when the map loop
\* has gone through every page and every page's map call has settled, as a
\* success or a failure; no map call is made after a reduce call.
C15_ReduceIsBarrier ==
    \A i \in 1..Len(calls) :
        IsReduceCall(calls[i]) =>
            /\ it = NumPages
            /\ AllPagesSettledBefore(i)
            /\ \A j \in i..Len(calls) : IsReduceCall(calls[j])

\* A reduce call after three map calls, one of which failed.
C15_Witness ==
    /\ Len(ReduceCalls) >= 1
    /\ Len(MapCalls) = 3
    /\ \E i \in 1..3 : ~MapCalls[i].ok

\* -------------------------------------------------------------------
\* C16  No chunk is abandoned: the map stage ends normally, and when it has
\* ended every page's provider call has been issued and has settled.
C16_NoChunkAbandoned ==
    MapEnded =>
        /\ raised = ""
        /\ \A p \in DOMAIN pages :
             \E i \in 1..Len(MapCalls) : MapCalls[i].page = p

\* -------------------------------------------------------------------
\* The non-empty lines of s: s split at its newlines, empty pieces dropped.
RECURSIVE SplitFrom(_, _, _)
SplitFrom(s, k, cur) ==
    IF k > Len(s) THEN (IF cur = <<>> THEN <<>> ELSE <<cur>>)
    ELSE IF s[k] = NL
         THEN (IF cur = <<>> THEN <<>> ELSE <<cur>>)
              \o SplitFrom(s, k + 1, <<>>)
         ELSE SplitFrom(s, k + 1, Append(cur, s[k]))

Lines(s) == SplitFrom(s, 1, <<>>)

HasDoubledNewline(s) ==
    \E k \in 1..(Len(s) - 1) : s[k] = NL /\ s[k + 1] = NL

\* C17  Chunk boundaries survive the join: when no summary has a doubled
\* newline of its own, so that every doubled newline of the joined text
\* comes from a join boundary, the reduce input keeps a newline at every
\* boundary: its lines are the lines of the summaries, none fused with a
\* line of the next summary.
C17_BoundariesSurvive ==
    (/\ pc \in {"reduce_cell", "done"}
     /\ \A i \in 1..Len(map_summaries) :
          ~HasDoubledNewline(map_summaries[i])) =>
        Lines(text) = Lines(Join(<<NL>>, map_summaries))

\* -------------------------------------------------------------------
\* s with every pair of newlines taken out of each run of newlines, pairing
\* from the left of the run: a run of even length goes, a run of odd length
\* leaves one newline; every other character stays where it is.  run is the
\* length of the run of newlines that ends just before position k.
RECURSIVE PairsRemovedFrom(_, _, _)
PairsRemovedFrom(s, k, run) ==
    IF k > Len(s) THEN (IF run % 2 = 1 THEN <<NL>> ELSE <<>>)
    ELSE IF s[k] = NL
         THEN PairsRemovedFrom(s, k + 1, run + 1)
         ELSE (IF run % 2 = 1 THEN <<NL>> ELSE <<>>)
              \o <<s[k]>> \o PairsRemovedFrom(s, k + 1, 0)

PairsRemoved(s) == PairsRemovedFrom(s, 1, 0)

IsNotNewline(c) == c # NL

\* C18  Newline collapsing is one level only: the reduce input is the joined
\* text with each non-overlapping pair of consecutive newlines, found
\* scanning once from the left, replaced by the empty string; nothing else is
\* normalised: every other character is kept, in order, and a newline left
\* over from a run of odd length stays.
C18_OneLevelCollapse ==
    pc \in {"reduce_cell", "done"} =>
        /\ string = Join(<<NL>>, map_summaries)
        /\ text = PairsRemoved(string)
        /\ SelectSeq(text, IsNotNewline) = SelectSeq(string, IsNotNewline)

\* A joined text with a run of three newlines or more between two letters,
\* of which the reduce input keeps one.
C18_Witness ==
    /\ pc = "reduce_cell"
    /\ \E k \in 1..(Len(string) - 2) :
         string[k] = NL /\ string[k + 1] = NL /\ string[k + 2] = NL
    /\ \E k \in 2..(Len(text) - 1) :
         text[k] = NL /\ text[k - 1] # NL /\ text[k + 1] # NL

\* -------------------------------------------------------------------
IsMapRecord(r) == r.stage = "map"
MapRecords == SelectSeq(log, IsMapRecord)

\* C19  Every outcome is logged and logging is not a control dependency:
\* when the map stage has ended the log holds exactly one map record per
\* page, in page order, INFO for a page that was answered and ERROR for a
\* page whose call failed, and the stage has taken every page whatever was
\* logged.
C19_EveryOutcomeLogged ==
    MapEnded =>
        /\ Len(MapRecords) = NumPages
        /\ \A i \in 1..Len(MapRecords) :
             /\ MapRecords[i].page = START + i - 1
             /\ MapRecords[i].level =
                  (IF provider[START + i - 1].ok THEN "INFO" ELSE "ERROR")
        /\ it = NumPages

ReduceCellRan == reduce_runs' = reduce_runs + 1

\* The step made one provider call, a reduce call with the reduce prompt
\* built from text, and no other.
OneReduceCall ==
    /\ Len(calls') = Len(calls) + 1
    /\ SubSeq(calls', 1, Len(calls)) = calls
    /\ IsReduceCall(calls'[Len(calls')])
    /\ calls'[Len(calls')].prompt = reduce_prompt.val
    /\ calls'[Len(calls')].model = REDUCE_LLM

\* C21  Reduce is single-call: one execution of the reduce cell issues
\* exactly one provider call, with at least one map summary or with none,
\* and never more than one, whether that call answers or fails.
C21_ReduceSingleCall ==
    [][ReduceCellRan => OneReduceCall]_vars

\* One execution of the reduce cell over two summaries whose call failed.
C21_Witness ==
    /\ reduce_runs = 1
    /\ Len(ReduceCalls) = 1
    /\ ~ReduceCalls[1].ok
    /\ Len(map_summaries) = 2

\* -------------------------------------------------------------------
\* C22  Source failure is fail-fast: when the extraction of the pages
\* fails, the run stops with that error before the map cell runs; no map
\* call and no reduce call is ever made after it, nothing is summarised and
\* no bundle is assigned.
C22_SourceFailFast ==
    (raised = "SourceError") =>
        /\ pc = "raised"
        /\ calls = <<>>
        /\ map_summaries = <<>>
        /\ log = <<>>
        /\ ~IsBound(output)

\* The extraction of a PDF of two pages or more failed.
C22_Witness ==
    /\ raised = "SourceError"
    /\ Cardinality(DOMAIN provider) >= 2
    /\ pc = "raised"

\* -------------------------------------------------------------------
OkReduceCalls == SelectSeq(ReduceCalls, IsOk)

\* C23  No truncation: every stored map summary is the string the provider
\* returned for its call, and the final_summary of the bundle is the string
\* the provider returned for the reduce call, whatever their length;
\* max_words goes into the prompts as a value and is applied to nothing
\* else.
C23_NoTruncation ==
    /\ Len(map_summaries) = Len(OkMapCalls)
    /\ \A j \in 1..Len(OkMapCalls) : map_summaries[j] = OkMapCalls[j].val
    /\ \A i \in 1..Len(MapCalls) :
         MapCalls[i].prompt =
            build_prompt(SUMMARY_PROMPT_TPL,
                         [text |-> PageText,
                          max_words |-> Str(MAP_MAX_WORDS)]).val
    /\ IsBound(output) =>
         /\ Len(OkReduceCalls) > 0
         /\ ValueOf(output).final_summary =
              OkReduceCalls[Len(OkReduceCalls)].val
         /\ ValueOf(output).map_summaries = map_summaries
         /\ final_summary = Bound(ValueOf(output).final_summary)

\* A bundle whose final summary has more words than REDUCE_MAX_WORDS and
\* whose second map summary has more words than MAP_MAX_WORDS.
C23_Witness ==
    /\ IsBound(output)
    /\ WordCount(ValueOf(output).final_summary) > REDUCE_MAX_WORDS
    /\ Len(ValueOf(output).map_summaries) >= 2
    /\ WordCount(ValueOf(output).map_summaries[2]) > MAP_MAX_WORDS

\* -------------------------------------------------------------------
\* C24  Abort of the whole run: when the user interrupts the run during the
\* map stage, no page after the interrupted one is submitted, no reduce call
\* is made, no bundle is assigned, and a call that was in flight leaves no
\* result: map_summaries holds answers of calls that had returned, nothing
\* else.
C24_InterruptAborts ==
    (raised = "KeyboardInterrupt") =>
        /\ pc = "raised"
        /\ \A i \in 1..Len(MapCalls) : MapCalls[i].page <= START + it
        /\ ReduceCalls = <<>>
        /\ ~IsBound(output)
        /\ string = <<>>
        /\ Len(map_summaries) <= Len(OkMapCalls)
        /\ \A j \in 1..Len(map_summaries) :
             map_summaries[j] = OkMapCalls[j].val

\* The interrupt arrived during the call of the second of three pages, after
\* the first page was answered.
C24_Witness ==
    /\ raised = "KeyboardInterrupt"
    /\ NumPages = 3
    /\ Len(MapCalls) = 2
    /\ MapCalls[2].val = Interrupted.val
    /\ Len(map_summaries) = 1

\* -------------------------------------------------------------------
FlowStages == <<"summary", "style", "post">>

\* C25  Content-creation workflow ordering: the provider calls are made in
\* the order summary, style, post, one each at most; the summary is made
\* from the page text, the structured summary from the summary, the post
\* from the structured summary; a call is followed by another only if it
\* answered, so a failure in a step keeps every later step from calling.
C25_FlowInSequence ==
    /\ Len(calls) <= 3
    /\ \A i \in 1..Len(calls) : calls[i].stage = FlowStages[i]
    /\ Len(calls) >= 1 => calls[1].input = text
    /\ \A i \in 2..Len(calls) :
         /\ calls[i - 1].ok
         /\ calls[i].input = calls[i - 1].val
    /\ raised # "" =>
         /\ pc = "raised"
         /\ ~calls[Len(calls)].ok
    /\ IsBound(post) =>
         /\ Len(calls) = 3
         /\ post = Bound(calls[3].val)
         /\ styled_summary = Bound(calls[2].val)
         /\ summary = Bound(calls[1].val)

\* The post was written, from three answers that differ from the page text
\* and from each other where they follow each other.
C25_Witness ==
    /\ IsBound(post)
    /\ Len(calls) = 3
    /\ calls[1].val # text
    /\ calls[2].val # calls[1].val
    /\ calls[3].val # calls[2].val

\* -------------------------------------------------------------------
\* The call a step of the reduce cell made.
NewCall == calls'[Len(calls')]

\* What a step does to output: a step in which the reduce call answered
\* assigns the bundle of that answer and the map summaries; any other step,
\* the step of a failed reduce call included, leaves output and
\* final_summary as they were.
OutputOnlyOnSuccess ==
    IF ReduceCellRan /\ NewCall.ok
    THEN output' = Bound(Bundle(NewCall.val, map_summaries))
    ELSE output' = output /\ final_summary' = final_summary

\* C26  The output bundle is assigned only on reduce success: output is
\* written only in the else branch, after the reduce call returned; when the
\* reduce call fails nothing is assigned, so a bundle left by an earlier
\* successful execution stays in place unchanged.
C26_OutputOnlyOnSuccess ==
    [][OutputOnlyOnSuccess]_vars

\* The reduce cell answered, then ran again and failed: the bundle of the
\* first execution is still there.
C26_Witness ==
    /\ Len(ReduceCalls) = 2
    /\ ReduceCalls[1].ok
    /\ ~ReduceCalls[2].ok
    /\ IsBound(output)
    /\ ValueOf(output).final_summary = ReduceCalls[1].val
    /\ Len(map_summaries) > 0

\* -------------------------------------------------------------------
\* Where the maximal runs of newlines of s start, and how long the run that
\* starts at k is.
RunStarts(s) ==
    {k \in 1..Len(s) : s[k] = NL /\ (k = 1 \/ s[k - 1] # NL)}
RunLen(s, k) ==
    CHOOSE n \in 1..(Len(s) - k + 1) :
        /\ \A j \in 0..(n - 1) : s[k + j] = NL
        /\ (k + n > Len(s) \/ s[k + n] # NL)

Newlines(s) == {k \in 1..Len(s) : s[k] = NL}

\* C27  The reduce input never contains two consecutive newlines: whatever
\* newlines the map summaries hold and wherever, after the join and the one
\* replace pass no doubled newline is left; a run of L newlines of the
\* joined text has become L mod 2 newlines, so the reduce input has one
\* newline for each run of odd length and none for a run of even length.
C27_NoDoubledNewlineLeft ==
    pc \in {"reduce_cell", "done"} =>
        /\ ~HasDoubledNewline(text)
        /\ Cardinality(Newlines(text)) =
             Cardinality({k \in RunStarts(string) :
                            RunLen(string, k) % 2 = 1})
        /\ Cardinality(RunStarts(text)) = Cardinality(Newlines(text))

\* A joined text with a run of four newlines or more and a run of odd
\* length.
C27_Witness ==
    /\ pc = "reduce_cell"
    /\ \E k \in RunStarts(string) : RunLen(string, k) >= 4
    /\ \E k \in RunStarts(string) : RunLen(string, k) % 2 = 1
    /\ Newlines(text) # {}

\* -------------------------------------------------------------------
\* C28  Failure log content in the map loop: when the call of page k fails
\* after an earlier page was answered, the error record of page k carries
\* the most recent answer held in the name summary, that of the last
\* answered page before k, and not the detail of the exception caught.
C28_ErrorRecordCarriesSummary ==
    \A i \in 1..Len(MapErrorRecords) :
        LET k == MapErrorRecords[i].page
            before == AnswersUpTo(k - 1)
        IN /\ ~provider[k].ok
           /\ before # <<>>
           /\ MapErrorRecords[i].msg = before[Len(before)]
           /\ MapErrorRecords[i].msg # provider[k].val

\* The third page failed after two pages with different answers: its record
\* carries the second answer.
C28_Witness ==
    /\ Len(MapErrorRecords) = 1
    /\ MapErrorRecords[1].page = START + 2
    /\ provider[START].ok
    /\ provider[START + 1].ok
    /\ provider[START].val # provider[START + 1].val
    /\ MapErrorRecords[1].msg = provider[START + 1].val

====
